---- MODULE Spec2Model ----
(***************************************************************************)
(* Task Master MCP server (src/task_master_server.py).                     *)
(*                                                                         *)
(* The state is the module-level dict `tasks` and the requests in flight   *)
(* on POST /mcp/{function_name}.  A request passes verify_credentials,     *)
(* then waits on `await request.body()`, then runs json.loads, the         *)
(* dispatch and the handler without a further suspension point, and the    *)
(* framework renders the returned payload as the response.                 *)
(***************************************************************************)
EXTENDS Integers, Sequences, FiniteSets, TLC

VARIABLES tasks, reqs, response

vars == <<tasks, reqs, response>>

(***************************************************************************)
(* Bounds of the model.                                                    *)
(***************************************************************************)
\* Number of requests the clients send in one run; all may be in flight together.
MaxRequests == 2

(***************************************************************************)
(* JSON values as json.loads produces them.  `s` is the text str() gives   *)
(* for the value (what an f-string interpolates).                          *)
(***************************************************************************)
Str(s) == [kind |-> "str", s |-> s]
None == [kind |-> "NoneType", s |-> "None"]
\* json.loads("1e999") is float('inf'): a number the JSON grammar admits.
Inf == [kind |-> "float", s |-> "inf"]
Int7 == [kind |-> "int", s |-> "7"]
ListX == [kind |-> "list", s |-> "['x']"]

\* Python truth value: `if not x`
Truthy(v) ==
    /\ v.kind # "NoneType"
    /\ ~(v.kind = "str" /\ v.s = "")
    /\ ~(v.kind = "int" /\ v.s = "0")
    /\ ~(v.kind = "list" /\ v.s = "[]")

\* Whether the value can be a dict key (lists and dicts raise TypeError).
Hashable(v) == v.kind \notin {"list", "dict"}

\* str(x) as an f-string interpolates it.
PyStr(v) == v.s

\* Whether json.dumps(..., allow_nan=False) accepts the value.
Finite(v) == ~(v.kind = "float" /\ v.s \in {"inf", "-inf", "nan"})

(***************************************************************************)
(* Python dict with its insertion order: [order, map].                     *)
(***************************************************************************)
DictKeys(d) == DOMAIN d.map

\* d[k] = v
DictSet(d, k, v) ==
    [order |-> IF k \in DOMAIN d.map THEN d.order ELSE Append(d.order, k),
     map |-> [x \in DOMAIN d.map \cup {k} |-> IF x = k THEN v ELSE d.map[x]]]

\* d.pop(k), the dict that remains
DictPop(d, k) ==
    [order |-> SelectSeq(d.order, LAMBDA x : x # k),
     map |-> [x \in DOMAIN d.map \ {k} |-> d.map[x]]]

\* list(d.values())
DictValues(d) == [i \in 1..Len(d.order) |-> d.map[d.order[i]]]

\* `k in d` and d.get(k) for a hashable JSON value k: every key is a str.
DictHas(d, v) == v.kind = "str" /\ v.s \in DOMAIN d.map

\* parameters.get(key, default)
Get(parameters, key, default) ==
    IF key \in DOMAIN parameters.items THEN parameters.items[key] ELSE default

(***************************************************************************)
(* Configuration and the seed records.                                     *)
(***************************************************************************)
USERNAME == "instabids"
PASSWORD == "secure123password"

SeedTasks ==
    [order |-> <<"task-001", "task-002">>,
     map |-> [k \in {"task-001", "task-002"} |->
        IF k = "task-001"
        THEN [id |-> Str("task-001"),
              title |-> Str("Implement MCP server"),
              description |-> Str("Create a working MCP server implementation"),
              status |-> Str("in_progress"),
              priority |-> Str("high"),
              created_at |-> Str("2025-04-24T12:00:00Z"),
              due_date |-> Str("2025-04-26T12:00:00Z")]
        ELSE [id |-> Str("task-002"),
              title |-> Str("Test relay proxy"),
              description |-> Str("Test the relay proxy with the MCP server"),
              status |-> Str("pending"),
              priority |-> Str("medium"),
              created_at |-> Str("2025-04-24T12:30:00Z"),
              due_date |-> Str("2025-04-27T12:00:00Z")]]]

(***************************************************************************)
(* Handlers.  Each gives [exc, result, tasks]: the exception it raises     *)
(* ("" when it returns), the payload it returns and the store it leaves.   *)
(***************************************************************************)
Unset == [unset |-> TRUE]

Return(result, t) == [exc |-> "", result |-> result, tasks |-> t]
Raise(exc, t) == [exc |-> exc, result |-> Unset, tasks |-> t]

\* parameters.get on a value that is no dict
AttributeError(parameters) ==
    "'" \o parameters.kind \o "' object has no attribute 'get'"

\* a list used as a dict key
TypeError(v) == "unhashable type: '" \o v.kind \o "'"

NotFound(task_id) == [error |-> "Task with ID " \o PyStr(task_id) \o " not found"]

TaskIdRequired == [error |-> "task_id parameter is required"]

handle_list_tasks(t, parameters) == Return([tasks |-> DictValues(t)], t)

\* handle_get_task with tasks.pop in place of tasks.get
handle_get_task_pops(t, parameters) ==
    IF parameters.kind # "dict" THEN Raise(AttributeError(parameters), t)
    ELSE LET task_id == Get(parameters, "task_id", None) IN
        IF ~Truthy(task_id) THEN Return(TaskIdRequired, t)
        ELSE IF ~Hashable(task_id) THEN Raise(TypeError(task_id), t)
        ELSE IF ~DictHas(t, task_id) THEN Return(NotFound(task_id), t)
        ELSE Return([task |-> t.map[task_id.s]], DictPop(t, task_id.s))

handle_get_task(t, parameters) ==
    IF parameters.kind # "dict" THEN Raise(AttributeError(parameters), t)
    ELSE LET task_id == Get(parameters, "task_id", None) IN
        IF ~Truthy(task_id) THEN Return(TaskIdRequired, t)
        ELSE IF ~Hashable(task_id) THEN Raise(TypeError(task_id), t)
        ELSE IF ~DictHas(t, task_id) THEN Return(NotFound(task_id), t)
        ELSE Return([task |-> t.map[task_id.s]], t)

\* handle_create_task storing a record built before due_date is read
handle_create_task_drops_due_date(t, parameters, uuid8, now) ==
    IF parameters.kind # "dict" THEN Raise(AttributeError(parameters), t)
    ELSE LET title == Get(parameters, "title", None) IN
        IF ~Truthy(title) THEN Return([error |-> "title parameter is required"], t)
        ELSE LET task_id == "task-" \o uuid8
                 task == [id |-> Str(task_id),
                          title |-> title,
                          description |-> Get(parameters, "description", Str("")),
                          status |-> Str("pending"),
                          priority |-> Get(parameters, "priority", Str("medium")),
                          created_at |-> Str(now),
                          due_date |-> Get(parameters, "due_date", None)]
             IN Return([task |-> task, task_id |-> task_id],
                       DictSet(t, task_id, [task EXCEPT !.due_date = None]))

\* uuid8 is str(uuid.uuid4())[:8], now is datetime.now().isoformat()
handle_create_task(t, parameters, uuid8, now) ==
    IF parameters.kind # "dict" THEN Raise(AttributeError(parameters), t)
    ELSE LET title == Get(parameters, "title", None) IN
        IF ~Truthy(title) THEN Return([error |-> "title parameter is required"], t)
        ELSE LET task_id == "task-" \o uuid8
                 task == [id |-> Str(task_id),
                          title |-> title,
                          description |-> Get(parameters, "description", Str("")),
                          status |-> Str("pending"),
                          priority |-> Get(parameters, "priority", Str("medium")),
                          created_at |-> Str(now),
                          due_date |-> Get(parameters, "due_date", None)]
             IN Return([task |-> task, task_id |-> task_id],
                       DictSet(t, task_id, task))

UpdatableFields == {"title", "description", "status", "priority", "due_date"}

\* the loop running over every key of parameters (task.update(parameters))
UpdateFields_all_keys(task, parameters) ==
    [f \in DOMAIN task \cup DOMAIN parameters.items |->
        IF f \in DOMAIN parameters.items THEN parameters.items[f] ELSE task[f]]

\* the loop with "id" among the fields it copies
UpdateFields_with_id(task, parameters) ==
    [f \in DOMAIN task |->
        IF f \in UpdatableFields \cup {"id"} /\ f \in DOMAIN parameters.items
        THEN parameters.items[f] ELSE task[f]]

\* the loop `for field in [...]: if field in parameters: task[field] = parameters[field]`
UpdateFields(task, parameters) ==
    [f \in DOMAIN task |->
        IF f \in UpdatableFields /\ f \in DOMAIN parameters.items
        THEN parameters.items[f] ELSE task[f]]

handle_update_task(t, parameters) ==
    IF parameters.kind # "dict" THEN Raise(AttributeError(parameters), t)
    ELSE LET task_id == Get(parameters, "task_id", None) IN
        IF ~Truthy(task_id) THEN Return(TaskIdRequired, t)
        ELSE IF ~Hashable(task_id) THEN Raise(TypeError(task_id), t)
        ELSE IF ~DictHas(t, task_id) THEN Return(NotFound(task_id), t)
        ELSE LET task == UpdateFields(t.map[task_id.s], parameters) IN
            Return([task |-> task], DictSet(t, task_id.s, task))

\* handle_delete_task without the `task_id not in tasks` check: tasks.pop
\* raises KeyError, whose str is the repr of the key
handle_delete_task_no_check(t, parameters) ==
    IF parameters.kind # "dict" THEN Raise(AttributeError(parameters), t)
    ELSE LET task_id == Get(parameters, "task_id", None) IN
        IF ~Truthy(task_id) THEN Return(TaskIdRequired, t)
        ELSE IF ~Hashable(task_id) THEN Raise(TypeError(task_id), t)
        ELSE IF ~DictHas(t, task_id) THEN Raise("'" \o PyStr(task_id) \o "'", t)
        ELSE Return([success |-> TRUE, deleted_task |-> t.map[task_id.s]],
                    DictPop(t, task_id.s))

\* handle_delete_task with tasks.get in place of tasks.pop
handle_delete_task_keeps(t, parameters) ==
    IF parameters.kind # "dict" THEN Raise(AttributeError(parameters), t)
    ELSE LET task_id == Get(parameters, "task_id", None) IN
        IF ~Truthy(task_id) THEN Return(TaskIdRequired, t)
        ELSE IF ~Hashable(task_id) THEN Raise(TypeError(task_id), t)
        ELSE IF ~DictHas(t, task_id) THEN Return(NotFound(task_id), t)
        ELSE Return([success |-> TRUE, deleted_task |-> t.map[task_id.s]], t)

handle_delete_task(t, parameters) ==
    IF parameters.kind # "dict" THEN Raise(AttributeError(parameters), t)
    ELSE LET task_id == Get(parameters, "task_id", None) IN
        IF ~Truthy(task_id) THEN Return(TaskIdRequired, t)
        ELSE IF ~Hashable(task_id) THEN Raise(TypeError(task_id), t)
        ELSE IF ~DictHas(t, task_id) THEN Return(NotFound(task_id), t)
        ELSE Return([success |-> TRUE, deleted_task |-> t.map[task_id.s]],
                    DictPop(t, task_id.s))

handler_map == {"list_tasks", "get_task", "create_task", "update_task", "delete_task"}

\* the first 8 characters uuid4 may give
Tokens == {"0a1b2c3d", "9f8e7d6c"}

\* values of datetime.now().isoformat()
Timestamps == {"2025-05-01T09:00:00.000001", "2025-05-01T09:00:00.000002"}

\* handler_map[function_name](parameters): the outcomes the call may have, one
\* for each value uuid4 and datetime.now may give inside handle_create_task.
CallHandler(function_name, t, parameters) ==
    CASE function_name = "list_tasks" -> {handle_list_tasks(t, parameters)}
      [] function_name = "get_task" -> {handle_get_task(t, parameters)}
      [] function_name = "create_task" ->
            {handle_create_task(t, parameters, uuid8, now) :
                uuid8 \in Tokens, now \in Timestamps}
      [] function_name = "update_task" -> {handle_update_task(t, parameters)}
      [] function_name = "delete_task" -> {handle_delete_task(t, parameters)}

(***************************************************************************)
(* The body of handle_mcp_request after `await request.body()`: the        *)
(* outcomes [result, tasks], the payload returned and the store left.      *)
(***************************************************************************)
Dispatch(function_name, body, t) ==
    IF body.kind = "malformed"
    THEN {[result |-> [error |-> "Invalid JSON in request body"], tasks |-> t]}
    ELSE IF function_name \notin handler_map
    THEN {[result |-> [error |-> "Function " \o function_name \o " not supported"],
           tasks |-> t]}
    ELSE {IF h.exc # ""
          THEN [result |-> [error |-> h.exc], tasks |-> h.tasks]
          ELSE [result |-> h.result, tasks |-> h.tasks] :
            h \in CallHandler(function_name, t, body)}

(***************************************************************************)
(* The response the framework renders from the returned payload:           *)
(* JSONResponse serialises with allow_nan=False, after handle_mcp_request  *)
(* has returned, so outside its try block.                                 *)
(***************************************************************************)
TaskFinite(task) == \A f \in DOMAIN task : Finite(task[f])

JsonCompliant(result) ==
    /\ "task" \in DOMAIN result => TaskFinite(result.task)
    /\ "deleted_task" \in DOMAIN result => TaskFinite(result.deleted_task)
    /\ "tasks" \in DOMAIN result =>
          \A i \in DOMAIN result.tasks : TaskFinite(result.tasks[i])

StatusOf(result) == IF JsonCompliant(result) THEN 200 ELSE 500

\* verify_credentials with `or` in place of `and`
CredentialsOk_or(username, password) ==
    LET is_username_correct == username = USERNAME
        is_password_correct == password = PASSWORD
    IN is_username_correct \/ is_password_correct

\* verify_credentials: secrets.compare_digest is equality of the two strings.
CredentialsOk(username, password) ==
    LET is_username_correct == username = USERNAME
        is_password_correct == password = PASSWORD
    IN is_username_correct /\ is_password_correct

(***************************************************************************)
(* Inputs.                                                                 *)
(***************************************************************************)
FunctionNames == handler_map \cup {"unknown_fn"}

\* the configured credentials and a one-character deviation of each
Usernames == {USERNAME, "instabidz"}
Passwords == {PASSWORD, "secure123passwore"}

Absent == [kind |-> "absent", s |-> ""]

\* task_id values that may name a record, and values that never do
TaskIds == {Str("task-001"), Str("task-002")} \cup {Str("task-" \o tok) : tok \in Tokens}
OddTaskIds == {Absent, Str(""), Int7, ListX}

TitleValues == {Str("Write spec"), Str("")}

\* a timestamp, and the number 1e999, which json.loads reads as float('inf')
DueDateValues == {Str("2025-06-01T00:00:00Z"), Inf}

OtherValue(key) ==
    CASE key = "description" -> Str("details")
      [] key = "status" -> Str("done")
      [] key = "priority" -> Str("low")
      [] key = "id" -> Str("task-999")
      [] key = "created_at" -> Str("1999-01-01T00:00:00Z")
      [] key = "assignee" -> Str("bob")

\* the sets of keys, besides task_id, that a request object carries
ParamKeySets ==
    { {},
      {"title"},
      {"title", "description", "priority", "due_date"},
      {"status", "id", "created_at", "assignee"},
      {"title", "description", "status", "priority", "due_date",
       "id", "created_at", "assignee"} }

Object(keys, task_id, title, due_date) ==
    [kind |-> "dict",
     items |-> [k \in keys \cup (IF task_id = Absent THEN {} ELSE {"task_id"}) |->
                    IF k = "task_id" THEN task_id
                    ELSE IF k = "title" THEN title
                    ELSE IF k = "due_date" THEN due_date
                    ELSE OtherValue(k)]]

Objects(task_ids) ==
    UNION {{Object(ks, tid, tv, dv) :
                tid \in task_ids,
                tv \in (IF "title" \in ks THEN TitleValues ELSE {Absent}),
                dv \in (IF "due_date" \in ks THEN DueDateValues ELSE {Absent})} :
            ks \in ParamKeySets}

NoItems == [k \in {} |-> None]

\* what json.loads makes of a body that is no JSON object; "malformed" is a
\* body it rejects with JSONDecodeError
NonObjects ==
    {[kind |-> "malformed", items |-> NoItems], [kind |-> "list", items |-> NoItems]}

\* the request bodies sent to each function
BodiesFor(function_name) ==
    NonObjects \cup
    CASE function_name = "create_task" -> Objects({Absent})
      [] function_name = "update_task" ->
            Objects(TaskIds)
                \cup {Object({"title"}, tid, Str("Write spec"), Absent) : tid \in OddTaskIds}
      [] function_name \in {"get_task", "delete_task"} ->
            {Object({}, tid, Absent, Absent) : tid \in TaskIds \cup OddTaskIds}
      [] OTHER -> {Object({}, Absent, Absent, Absent)}

(***************************************************************************)
(* Requests.  Request i is the i-th to arrive.  pc is "new" before it      *)
(* arrives, "body" while it is suspended in `await request.body()`,        *)
(* and "closed" once its response is sent.                                 *)
(***************************************************************************)
Requests == 1..MaxRequests

NewRequest == [pc |-> "new", function_name |-> "", username |-> "", password |-> ""]
ClosedRequest == [pc |-> "closed", function_name |-> "", username |-> "", password |-> ""]

Unread == [kind |-> "unread", items |-> NoItems]

NoResponse ==
    [req |-> 0, function_name |-> "", username |-> "", password |-> "",
     body |-> Unread, status |-> 0, headers |-> {}, result |-> Unset]

Init ==
    /\ tasks = SeedTasks
    /\ reqs = [i \in Requests |-> NewRequest]
    /\ response = NoResponse

\* Request i arrives and the dependency verify_credentials runs.
verify_credentials(i) ==
    /\ reqs[i].pc = "new"
    /\ \A j \in Requests : j < i => reqs[j].pc # "new"
    /\ \E function_name \in FunctionNames, username \in Usernames, password \in Passwords :
        IF CredentialsOk(username, password)
        THEN /\ reqs' = [reqs EXCEPT ![i] =
                    [pc |-> "body", function_name |-> function_name,
                     username |-> username, password |-> password]]
             /\ UNCHANGED <<tasks, response>>
        ELSE /\ reqs' = [reqs EXCEPT ![i] = ClosedRequest]
             /\ response' =
                    [req |-> i, function_name |-> function_name,
                     username |-> username, password |-> password,
                     body |-> Unread, status |-> 401,
                     headers |-> {<<"WWW-Authenticate", "Basic">>},
                     result |-> [detail |-> "Invalid credentials"]]
             /\ UNCHANGED tasks

\* The body of request i has arrived: json.loads, the dispatch and the handler
\* run to the return without suspension, and the payload is rendered.
handle_mcp_request(i) ==
    /\ reqs[i].pc = "body"
    /\ \E body \in BodiesFor(reqs[i].function_name) :
       \E d \in Dispatch(reqs[i].function_name, body, tasks) :
        /\ tasks' = d.tasks
        /\ reqs' = [reqs EXCEPT ![i] = ClosedRequest]
        /\ response' =
                [req |-> i, function_name |-> reqs[i].function_name,
                 username |-> reqs[i].username, password |-> reqs[i].password,
                 body |-> body, status |-> StatusOf(d.result),
                 headers |-> {}, result |-> d.result]

Next == \E i \in Requests : verify_credentials(i) \/ handle_mcp_request(i)

Spec == Init /\ [][Next]_vars

(***************************************************************************)
(* Properties.                                                             *)
(*                                                                         *)
(* Handled(i) is a step in which request i runs handle_mcp_request; in its *)
(* post-state `response` holds the body it read and the payload returned.  *)
(***************************************************************************)
Handled(i) == reqs[i].pc = "body" /\ reqs'[i].pc = "closed"

SeedIds == {"task-001", "task-002"}

HasKey(body, key) == body.kind = "dict" /\ key \in DOMAIN body.items

\* every record other than k is as it was
OthersUnchanged(k) ==
    \A x \in DictKeys(tasks) \ {k} : x \in DictKeys(tasks') /\ tasks'.map[x] = tasks.map[x]

\* C1: every create_task call with a non-empty title returns an id that no
\* record of the store had before the call, replaces no record, grows the store
\* by exactly one record, and returns status 'pending'.
C1_CreateIdFresh ==
    [][\A i \in Requests :
        (/\ Handled(i)
         /\ reqs[i].function_name = "create_task"
         /\ HasKey(response'.body, "title")
         /\ response'.body.items["title"].kind = "str"
         /\ response'.body.items["title"].s # "")
        => /\ DOMAIN response'.result = {"task", "task_id"}
           /\ response'.result.task_id \notin DictKeys(tasks)
           /\ DictKeys(tasks') = DictKeys(tasks) \cup {response'.result.task_id}
           /\ Cardinality(DictKeys(tasks')) = Cardinality(DictKeys(tasks)) + 1
           /\ OthersUnchanged(response'.result.task_id)
           /\ response'.result.task.status = Str("pending")]_vars

\* C2: a get_task issued immediately after a successful create_task, with the
\* task_id it returned, succeeds and returns the record create_task returned.
C2_CreateGetRoundTrip ==
    [][\A i \in Requests :
        (/\ Handled(i)
         /\ reqs[i].function_name = "get_task"
         /\ response.function_name = "create_task"
         /\ "task_id" \in DOMAIN response.result
         /\ HasKey(response'.body, "task_id")
         /\ response'.body.items["task_id"] = Str(response.result.task_id))
        => /\ response'.result = [task |-> response.result.task]
           /\ \A f \in {"id", "title", "description", "status", "priority",
                        "created_at", "due_date"} :
                 response'.result.task[f] = response.result.task[f]]_vars

C2_Witness ==
    /\ response.function_name = "get_task"
    /\ "task" \in DOMAIN response.result
    /\ response.result.task.id.s \notin SeedIds
    /\ response.result.task.due_date # None

\* C3 as stated: delete_task of any task_id that is not in the store returns
\* 'Task with ID <task_id> not found' and leaves the store unchanged.
C3_DeleteAbsentAnyId ==
    [][\A i \in Requests :
        (/\ Handled(i)
         /\ reqs[i].function_name = "delete_task"
         /\ HasKey(response'.body, "task_id")
         /\ ~DictHas(tasks, response'.body.items["task_id"]))
        => /\ response'.result =
                [error |-> "Task with ID " \o response'.body.items["task_id"].s \o " not found"]
           /\ tasks' = tasks]_vars

\* C3 amended: delete_task of a task_id that is truthy and hashable (such as
\* any non-empty string) and not in the store returns 'Task with ID <task_id>
\* not found' and leaves the store unchanged; and a delete_task that follows a
\* successful delete_task of the same id returns that error.
C3_DeleteIdempotent ==
    [][\A i \in Requests :
        (/\ Handled(i)
         /\ reqs[i].function_name = "delete_task"
         /\ HasKey(response'.body, "task_id"))
        => LET task_id == response'.body.items["task_id"]
               not_found == [error |-> "Task with ID " \o task_id.s \o " not found"]
           IN /\ (Truthy(task_id) /\ Hashable(task_id) /\ ~DictHas(tasks, task_id))
                    => response'.result = not_found /\ tasks' = tasks
              /\ (/\ response.function_name = "delete_task"
                  /\ "success" \in DOMAIN response.result
                  /\ response.body.items["task_id"] = task_id)
                    => response'.result = not_found /\ tasks' = tasks]_vars

\* a second delete of a seed id has answered not-found
C3_Witness ==
    /\ response.function_name = "delete_task"
    /\ HasKey(response.body, "task_id")
    /\ response.body.items["task_id"] = Str("task-001")
    /\ response.result = [error |-> "Task with ID task-001 not found"]
    /\ "task-001" \notin DictKeys(tasks)

\* C4: an update_task call on an existing task, whatever fields its parameters
\* carry ('id', 'created_at' and unrecognized ones included), leaves the
\* record's id and created_at as they were, changes only the fields among
\* title, description, status, priority, due_date that the parameters carry,
\* adds no field to the record, and returns the record without raising.
C4_UpdateFrame ==
    [][\A i \in Requests :
        (/\ Handled(i)
         /\ reqs[i].function_name = "update_task"
         /\ HasKey(response'.body, "task_id")
         /\ DictHas(tasks, response'.body.items["task_id"]))
        => LET k == response'.body.items["task_id"].s
               items == response'.body.items
               old == tasks.map[k]
           IN /\ k \in DictKeys(tasks')
              /\ DictKeys(tasks') = DictKeys(tasks)
              /\ OthersUnchanged(k)
              /\ DOMAIN tasks'.map[k] = DOMAIN old
              /\ tasks'.map[k].id = old.id
              /\ tasks'.map[k].created_at = old.created_at
              /\ \A f \in {"title", "description", "status", "priority", "due_date"} :
                    tasks'.map[k][f] = IF f \in DOMAIN items THEN items[f] ELSE old[f]
              /\ response'.result = [task |-> tasks'.map[k]]]_vars

\* an update carrying id, created_at, an unrecognized field and a title has
\* been applied to a record that create_task made
C4_Witness ==
    /\ response.function_name = "update_task"
    /\ "task" \in DOMAIN response.result
    /\ {"id", "created_at", "assignee", "title", "task_id"} \subseteq DOMAIN response.body.items
    /\ response.body.items["task_id"].s \notin SeedIds

\* C5: a request reaches a handler only if the supplied username and password
\* both equal the configured ones; when either differs the response is 401 with
\* 'WWW-Authenticate: Basic', no handler runs and the store is unchanged,
\* whatever the function name.
C5_AuthGate ==
    [][\A i \in Requests :
        reqs'[i] # reqs[i] =>
            LET username == IF reqs'[i].pc = "body" THEN reqs'[i].username
                            ELSE response'.username
                password == IF reqs'[i].pc = "body" THEN reqs'[i].password
                            ELSE response'.password
            IN /\ (reqs'[i].pc = "body" \/ response'.status # 401)
                    => username = "instabids" /\ password = "secure123password"
               /\ (username # "instabids" \/ password # "secure123password")
                    => /\ reqs'[i].pc = "closed"
                       /\ response'.req = i
                       /\ response'.status = 401
                       /\ <<"WWW-Authenticate", "Basic">> \in response'.headers
                       /\ response'.body = Unread
                       /\ tasks' = tasks]_vars

\* a request for a store-changing function with a one-character deviation in
\* the password alone has been answered 401
C5_Witness ==
    /\ response.status = 401
    /\ response.function_name = "delete_task"
    /\ response.username = "instabids"
    /\ response.password = "secure123passwore"

\* C6: every authenticated request ends with a status-200 response, and a
\* malformed body, an unsupported function name, a missing required parameter,
\* an unknown task_id and a failure inside a handler each yield {"error": ...}.
C6_AlwaysStatus200 ==
    (response.req # 0 /\ response.username = "instabids"
        /\ response.password = "secure123password")
    => /\ response.status = 200
       /\ (\/ response.body.kind # "dict"
           \/ response.function_name \notin handler_map)
            => (response.function_name = "list_tasks" /\ response.body.kind = "list")
                \/ DOMAIN response.result = {"error"}

\* C7: every stored task's title is a non-empty string.
C7_TitleNonEmptyString ==
    \A k \in DictKeys(tasks) :
        tasks.map[k].title.kind = "str" /\ tasks.map[k].title.s # ""

\* C8: the record stored under key k has id k, so no two records share an id.
C8_KeyIsId ==
    /\ \A k \in DictKeys(tasks) : tasks.map[k].id = Str(k)
    /\ \A k1, k2 \in DictKeys(tasks) : tasks.map[k1].id = tasks.map[k2].id => k1 = k2
    /\ DictKeys(tasks) = {tasks.order[n] : n \in DOMAIN tasks.order}

\* an update carrying an 'id' parameter has been applied while the store holds
\* a created record beside a seed record
C8_Witness ==
    /\ response.function_name = "update_task"
    /\ "task" \in DOMAIN response.result
    /\ "id" \in DOMAIN response.body.items
    /\ DictKeys(tasks) \ SeedIds # {}
    /\ DictKeys(tasks) \cap SeedIds # {}

\* C9: the store changes only in a create_task, update_task or delete_task
\* call that returns a success payload; list_tasks, get_task, an unsupported
\* function name, a malformed body and every call returning {"error": ...}
\* leave the keys and every record as they were.
C9_StoreFrame ==
    [][tasks' # tasks =>
        \E i \in Requests :
            /\ Handled(i)
            /\ reqs[i].function_name \in {"create_task", "update_task", "delete_task"}
            /\ response'.req = i
            /\ response'.body.kind = "dict"
            /\ "error" \notin DOMAIN response'.result]_vars

\* an update of a record that an earlier call removed has answered with an
\* error while another record the earlier calls left is still in the store
C9_Witness ==
    /\ response.function_name = "update_task"
    /\ "error" \in DOMAIN response.result
    /\ HasKey(response.body, "title")
    /\ HasKey(response.body, "task_id")
    /\ response.body.items["task_id"].s \in SeedIds \ DictKeys(tasks)
    /\ Cardinality(DictKeys(tasks)) = 1

\* C10: each handler's lookup and mutation of the store are one atomic step
\* under any interleaving of requests suspended at the read of their bodies:
\* a delete_task of an id in the store returns success with the record and
\* removes it, and when another request then deletes the same id it gets the
\* not-found error, so of two concurrent deletes of one id exactly one
\* succeeds and neither ends in an internal-failure payload.
C10_ConcurrentDeletes ==
    [][\A i \in Requests :
        (/\ Handled(i)
         /\ reqs[i].function_name = "delete_task"
         /\ HasKey(response'.body, "task_id")
         /\ response'.body.items["task_id"].kind = "str"
         /\ response'.body.items["task_id"].s # "")
        => LET k == response'.body.items["task_id"].s
               not_found == [error |-> "Task with ID " \o k \o " not found"]
           IN /\ k \in DictKeys(tasks)
                    => /\ response'.result =
                            [success |-> TRUE, deleted_task |-> tasks.map[k]]
                       /\ DictKeys(tasks') = DictKeys(tasks) \ {k}
                       /\ OthersUnchanged(k)
              /\ k \notin DictKeys(tasks)
                    => response'.result = not_found /\ tasks' = tasks
              /\ (\E j \in Requests :
                    /\ j # i
                    /\ response.req = j
                    /\ response.function_name = "delete_task"
                    /\ "success" \in DOMAIN response.result
                    /\ response.result.deleted_task.id = Str(k))
                    => response'.result = not_found]_vars

\* two delete_task requests are in flight together (the earlier one is still
\* suspended at the read of its body) and the later one has removed a seed record
C10_Witness ==
    /\ response.function_name = "delete_task"
    /\ "success" \in DOMAIN response.result
    /\ \E i \in Requests :
        /\ i < response.req
        /\ reqs[i].pc = "body"
        /\ reqs[i].function_name = "delete_task"

====
